---- MODULE Spec2Model ----
(***************************************************************************)
(* Model of src/app.py: the Streamlit property/agent dashboard script.     *)
(* One run of the script is one user interaction: configuration checks,    *)
(* two cached fetch_data calls, the empty-result branches, the left merge  *)
(* with sentinel filling, the sidebar filters, the tabs, and the outer     *)
(* except handler.  The st.cache_data cache and the clock survive reruns.  *)
(***************************************************************************)
EXTENDS Integers, Sequences, FiniteSets, TLC

(***************************************************************************)
(* Bounds of the model.                                                    *)
(***************************************************************************)
MaxProps == 2
MaxAgents == 2
MaxRuns == 2
MaxTime == 400

(***************************************************************************)
(* Program constants.                                                      *)
(***************************************************************************)
TTL == 300
DefaultLimit == 1000
Deltas == {100}

(***************************************************************************)
(* Cell values.  Every cell is a string; NaN is pandas' missing value.     *)
(***************************************************************************)
NaN == "NaN"
All == "All"
NoAgentAssigned == "No Agent Assigned"
NA == "N/A"

AgentIds == {"10", "20"}
PropertyTypes == {"All", "House"}
Cities == {"Gotham", "Metropolis"}
CompanyNames == {"Acme", NaN}
Emails == {"a@x.com", NaN}
PhoneNumbers == {"555", NaN}

PropertyCols == {"agentId", "propertyType", "city"}
agent_cols_to_merge == {"id", "companyName", "email", "phoneNumber"}
AgentAttrCols == {"agent_companyName", "agent_email", "agent_phoneNumber"}

(***************************************************************************)
(* A DataFrame is a set of column names and a sequence of rows, each row a *)
(* function from the column names to cell values.                          *)
(***************************************************************************)
EmptyDataFrame == [cols |-> {}, rows |-> <<>>]

empty(df) == df.cols = {} \/ Len(df.rows) = 0

SeqsUpTo(S, n) == UNION {[1..k -> S] : k \in 0..n}

PropertyRowsOver(ids, types, cities) ==
    [agentId : ids, propertyType : types, city : cities]

AgentRows ==
    [id : AgentIds, companyName : CompanyNames, email : Emails,
     phoneNumber : PhoneNumbers]

RECURSIVE Concat(_)
Concat(ss) == IF Len(ss) = 0 THEN <<>> ELSE Head(ss) \o Concat(Tail(ss))

(***************************************************************************)
(* Lines 94-101: project the agent frame and rename its columns.           *)
(***************************************************************************)
MergeRaises(property_f, agent_f) ==
    \/ ~(agent_cols_to_merge \subseteq agent_f.cols)
    \/ "agentId" \notin property_f.cols

agent_df_selected(agent_f) ==
    [i \in 1..Len(agent_f.rows) |->
        [agentId |-> agent_f.rows[i].id,
         agent_companyName |-> agent_f.rows[i].companyName,
         agent_email |-> agent_f.rows[i].email,
         agent_phoneNumber |-> agent_f.rows[i].phoneNumber]]

(***************************************************************************)
(* Line 105: pd.merge(..., on='agentId', how='left').  Left rows keep      *)
(* their order; a left row yields one output row per matching right row,   *)
(* in right order, or one row with missing agent attributes if none.       *)
(***************************************************************************)
NoMatchRow ==
    [agentId |-> NaN, agent_companyName |-> NaN, agent_email |-> NaN,
     agent_phoneNumber |-> NaN]

JoinRow(p, pcols, a) ==
    [c \in pcols \cup AgentAttrCols |-> IF c \in pcols THEN p[c] ELSE a[c]]

Matches(p, selected) == SelectSeq(selected, LAMBDA a : a.agentId = p.agentId)

JoinedRows(p, pcols, selected) ==
    IF Len(Matches(p, selected)) = 0
    THEN <<JoinRow(p, pcols, NoMatchRow)>>
    ELSE [k \in 1..Len(Matches(p, selected)) |->
            JoinRow(p, pcols, Matches(p, selected)[k])]

LeftMerge(property_f, selected) ==
    [cols |-> property_f.cols \cup AgentAttrCols,
     rows |-> Concat([i \in 1..Len(property_f.rows) |->
                        JoinedRows(property_f.rows[i], property_f.cols, selected)])]

(***************************************************************************)
(* Lines 108-110: fillna on the three agent columns.                       *)
(***************************************************************************)
fillnaIdentity(v, fill) == v

fillna(v, fill) == IF v = NaN THEN fill ELSE v

FillRow(r) ==
    [c \in DOMAIN r |->
        IF c = "agent_companyName" THEN fillna(r[c], NoAgentAssigned)
        ELSE IF c = "agent_email" THEN fillna(r[c], NA)
        ELSE IF c = "agent_phoneNumber" THEN fillna(r[c], NA)
        ELSE r[c]]

Merge(property_f, agent_f) ==
    [cols |-> LeftMerge(property_f, agent_df_selected(agent_f)).cols,
     rows |-> [i \in 1..Len(LeftMerge(property_f, agent_df_selected(agent_f)).rows) |->
                 FillRow(LeftMerge(property_f, agent_df_selected(agent_f)).rows[i])]]

(***************************************************************************)
(* Lines 119-137: the sidebar option lists and the filters.  An option     *)
(* list is 'All' followed by the column's unique values in order of first  *)
(* appearance; a selection is a position in the list, and the selectbox    *)
(* returns the string at that position.                                    *)
(***************************************************************************)
FilterCols == {"propertyType", "city", "agent_companyName"}

RECURSIVE unique(_)
unique(s) ==
    IF Len(s) = 0 THEN <<>>
    ELSE <<Head(s)>> \o SelectSeq(unique(Tail(s)), LAMBDA v : v # Head(s))

Column(df, col) == [i \in 1..Len(df.rows) |-> df.rows[i][col]]

Options(df, col) ==
    IF col \in df.cols THEN <<All>> \o unique(Column(df, col)) ELSE <<All>>

Selections(df) ==
    [propertyType : 1..Len(Options(df, "propertyType")),
     city : 1..Len(Options(df, "city")),
     agent_companyName : 1..Len(Options(df, "agent_companyName"))]

selectbox(df, col, sel) == Options(df, col)[sel[col]]

ApplyFilter(df, col, selected) ==
    IF selected # All
    THEN [df EXCEPT !.rows = SelectSeq(df.rows, LAMBDA r : r[col] = selected)]
    ELSE df

Filtered(merged, sel) ==
    ApplyFilter(
        ApplyFilter(
            ApplyFilter(merged, "propertyType", selectbox(merged, "propertyType", sel)),
            "city", selectbox(merged, "city", sel)),
        "agent_companyName", selectbox(merged, "agent_companyName", sel))

(***************************************************************************)
(* Lines 23-49: the settings read from the environment.  An unset or empty *)
(* variable is the empty string, which `all` treats as false.              *)
(***************************************************************************)
Unset == ""
CredentialVars == {"DB_HOST", "DB_NAME", "DB_USER", "DB_PASSWORD"}
TableVars == {"DB_TABLE_AGENT", "DB_TABLE_PROPERTY"}
RequiredVars == CredentialVars \cup TableVars
TableNames == {"Agent", "Property"}

Envs ==
    {e \in [RequiredVars -> {Unset, "set"} \cup TableNames] :
        /\ \A v \in CredentialVars : e[v] \in {Unset, "set"}
        /\ \A v \in TableVars : e[v] \in {Unset} \cup TableNames}

MissingVars(e) == {v \in RequiredVars : e[v] = Unset}

CredentialsPresentExceptPassword(e) ==
    \A v \in CredentialVars \ {"DB_PASSWORD"} : e[v] # Unset

CredentialsPresent(e) == \A v \in CredentialVars : e[v] # Unset

TablesPresent(e) == \A v \in TableVars : e[v] # Unset

(***************************************************************************)
(* Notices written with st.error / st.warning / st.info / st.success.      *)
(***************************************************************************)
Notice(id, table, ssl, names) ==
    [id |-> id, table |-> table, ssl |-> ssl, names |-> names]

Plain(id) == Notice(id, "", FALSE, {})

Has(ns, id) == \E i \in 1..Len(ns) : ns[i].id = id

(***************************************************************************)
(* Exceptions.  StopException, raised by st.stop(), derives from           *)
(* BaseException and is not caught by `except Exception`.                  *)
(***************************************************************************)
NoExc == [kind |-> "none", ssl |-> FALSE]
StopException == [kind |-> "StopException", ssl |-> FALSE]
KeyError == [kind |-> "KeyError", ssl |-> FALSE]
DatabaseError == [kind |-> "DatabaseError", ssl |-> FALSE]
OperationalError(ssl) == [kind |-> "OperationalError", ssl |-> ssl]

CaughtOnlyDatabaseErrors(e) == e.kind \in {"OperationalError", "DatabaseError"}

CaughtByExceptException(e) ==
    e.kind \in {"KeyError", "OperationalError", "DatabaseError"}

(***************************************************************************)
(* Line 69: the notice fetch_data writes in its except clause.             *)
(***************************************************************************)
fetch_error_unnamed(table_name, e) == Notice("fetch_error", "", e.ssl, {})

fetch_error(table_name, e) == Notice("fetch_error", table_name, e.ssl, {})

(***************************************************************************)
(* Lines 280-282: the notices of the outer except clause.                  *)
(***************************************************************************)
HandlerNotices(e) ==
    <<Notice("unexpected_error", "", e.ssl, {})>>
    \o (IF e.ssl THEN <<Plain("ssl_hint")>> ELSE <<>>)

(***************************************************************************)
(* Line 51: st.cache_data(ttl=300).  An entry holds the returned value,    *)
(* the st elements written while computing it (replayed on a hit) and the  *)
(* time it was stored; it is valid for TTL seconds.                        *)
(***************************************************************************)
Keys == {<<t, DefaultLimit>> : t \in TableNames}

NoEntry == [present |-> FALSE, value |-> EmptyDataFrame, msgs |-> <<>>, ts |-> 0]

CacheValid(c, key, t) == c[key].present /\ t - c[key].ts < TTL

CacheStoreSuccessOnly(c, key, value, msgs, t, failed) ==
    IF failed THEN c
    ELSE [c EXCEPT ![key] = [present |-> TRUE, value |-> value, msgs |-> msgs, ts |-> t]]

CacheStore(c, key, value, msgs, t, failed) ==
    [c EXCEPT ![key] = [present |-> TRUE, value |-> value, msgs |-> msgs, ts |-> t]]

(***************************************************************************)
(* Lines 71-73: the finally clause closes the connection if one was made.  *)
(***************************************************************************)
OpenAfterCloseInTry(c, failed, n) == IF c = "open" /\ ~failed THEN n - 1 ELSE n

OpenAfterFinally(c, failed, n) == IF c = "open" THEN n - 1 ELSE n

(***************************************************************************)
(* Line 66: what SELECT * FROM "<table_name>" LIMIT <limit> can return.    *)
(***************************************************************************)
A1 == [id |-> "10", companyName |-> "Acme", email |-> NaN, phoneNumber |-> "555"]
A2 == [id |-> "20", companyName |-> "All", email |-> "a@x.com", phoneNumber |-> "555"]
P1 == [agentId |-> "10", propertyType |-> "House", city |-> "Gotham"]
P2 == [agentId |-> NaN, propertyType |-> "All", city |-> "Metropolis"]

AgentTables ==
    {[cols |-> agent_cols_to_merge, rows |-> <<>>],
     [cols |-> agent_cols_to_merge, rows |-> <<A1, A2>>],
     [cols |-> agent_cols_to_merge \ {"email"},
      rows |-> <<[id |-> "10", companyName |-> "Acme", phoneNumber |-> "555"]>>],
     [cols |-> {"companyName"}, rows |-> <<[companyName |-> "Acme"]>>]}

PropertyTables ==
    {[cols |-> PropertyCols, rows |-> <<>>],
     [cols |-> PropertyCols, rows |-> <<P1, P2>>],
     [cols |-> {"city"}, rows |-> <<[city |-> "Gotham"]>>]}

Db(table_name) == IF table_name = "Agent" THEN AgentTables ELSE PropertyTables

Limit(df, limit) ==
    [df EXCEPT !.rows = SubSeq(df.rows, 1, IF Len(df.rows) < limit THEN Len(df.rows) ELSE limit)]

(***************************************************************************)
(* Line 91 and lines 270, 274: which branch follows the empty checks.      *)
(***************************************************************************)
BranchIgnoringAgents(agent_f, property_f) ==
    IF ~empty(property_f) THEN "merge" ELSE "single"

Branch(agent_f, property_f) ==
    IF ~empty(agent_f) /\ ~empty(property_f) THEN "merge"
    ELSE IF ~empty(agent_f) \/ ~empty(property_f) THEN "single"
    ELSE "done"

(***************************************************************************)
(* State.                                                                  *)
(***************************************************************************)
VARIABLES
    env,          \* the settings of this process
    pc,           \* position of the script run
    runs,         \* number of the current run (interaction)
    now,          \* the clock, in seconds
    cache,        \* the st.cache_data cache of fetch_data
    calls,        \* history: the fetch_data calls made so far
    fpc,          \* position inside the body of fetch_data
    ftable,       \* fetch_data: table_name
    fstart,       \* fetch_data: time of the call
    conn,         \* fetch_data: the local conn ("None" or "open")
    openConns,    \* connections currently open
    fexc,         \* fetch_data: the exception being handled
    fresult,      \* fetch_data: the value to return
    fmsgs,        \* fetch_data: st elements written by this call
    agent_df, property_df, merged_df, filtered_df,
    selection,    \* positions chosen in the three selectboxes
    notices,      \* notices shown in this run
    displayed,    \* tables and charts shown in this run
    exc,          \* exception propagating in the script body
    steps         \* steps executed in this run

vars == <<env, pc, runs, now, cache, calls, fpc, ftable, fstart, conn, openConns,
          fexc, fresult, fmsgs, agent_df, property_df, merged_df, filtered_df,
          selection, notices, displayed, exc, steps>>

fetchVars == <<fpc, ftable, fstart, conn, openConns, fexc, fresult, fmsgs>>
frameVars == <<agent_df, property_df, merged_df, filtered_df, selection>>

NoSelection == [propertyType |-> 1, city |-> 1, agent_companyName |-> 1]
FullEnv == [v \in RequiredVars |->
              IF v = "DB_TABLE_AGENT" THEN "Agent"
              ELSE IF v = "DB_TABLE_PROPERTY" THEN "Property" ELSE "set"]

RunStart ==
    /\ fpc = "idle" /\ ftable = "" /\ fstart = 0 /\ conn = "None"
    /\ fexc = NoExc /\ fresult = EmptyDataFrame /\ fmsgs = <<>>
    /\ agent_df = EmptyDataFrame /\ property_df = EmptyDataFrame
    /\ merged_df = EmptyDataFrame /\ filtered_df = EmptyDataFrame
    /\ selection = NoSelection
    /\ notices = <<>> /\ displayed = {} /\ exc = NoExc /\ steps = {}

Init ==
    /\ env \in Envs
    /\ pc = "start" /\ runs = 1 /\ now = 0
    /\ cache = [k \in Keys |-> NoEntry]
    /\ calls = <<>>
    /\ openConns = 0
    /\ RunStart

(***************************************************************************)
(* Lines 38-49: the two configuration checks.                              *)
(***************************************************************************)
ConfigCheck ==
    /\ pc = "start"
    /\ IF ~CredentialsPresent(env)
       THEN /\ notices' = notices \o <<Plain("missing_credentials"),
                                       Notice("required_variables", "", FALSE, CredentialVars)>>
            /\ pc' = "stopped"
       ELSE IF ~TablesPresent(env)
       THEN /\ notices' = Append(notices,
                                 Notice("missing_table_names", "", FALSE, TableVars))
            /\ pc' = "stopped"
       ELSE /\ pc' = "fetch_agent"
            /\ UNCHANGED notices
    /\ UNCHANGED <<env, runs, now, cache, calls, fetchVars, frameVars, displayed, exc, steps>>

(***************************************************************************)
(* Lines 77-78: the two calls of fetch_data, and its body, lines 52-73.    *)
(***************************************************************************)
TableArg == IF pc = "fetch_agent" THEN env["DB_TABLE_AGENT"] ELSE env["DB_TABLE_PROPERTY"]

Returns(df) ==
    /\ steps' = steps \cup {pc}
    /\ IF pc = "fetch_agent"
       THEN agent_df' = df /\ pc' = "fetch_property" /\ UNCHANGED property_df
       ELSE property_df' = df /\ pc' = "check_empty" /\ UNCHANGED agent_df
    /\ UNCHANGED <<merged_df, filtered_df, selection>>

FetchCached ==
    /\ pc \in {"fetch_agent", "fetch_property"} /\ fpc = "idle"
    /\ CacheValid(cache, <<TableArg, DefaultLimit>>, now)
    /\ notices' = notices \o cache[<<TableArg, DefaultLimit>>].msgs
    /\ calls' = Append(calls, [key |-> <<TableArg, DefaultLimit>>, t |-> now, run |-> runs,
                               miss |-> FALSE, opened |-> FALSE, failed |-> FALSE,
                               ssl |-> FALSE,
                               msgs |-> cache[<<TableArg, DefaultLimit>>].msgs,
                               result |-> cache[<<TableArg, DefaultLimit>>].value])
    /\ Returns(cache[<<TableArg, DefaultLimit>>].value)
    /\ UNCHANGED <<env, runs, now, cache, fetchVars, displayed, exc>>

FetchMiss ==
    /\ pc \in {"fetch_agent", "fetch_property"} /\ fpc = "idle"
    /\ ~CacheValid(cache, <<TableArg, DefaultLimit>>, now)
    /\ fpc' = "connect" /\ ftable' = TableArg /\ fstart' = now
    /\ conn' = "None" /\ fexc' = NoExc /\ fresult' = EmptyDataFrame /\ fmsgs' = <<>>
    /\ UNCHANGED <<env, pc, runs, now, cache, calls, openConns, frameVars, notices,
                   displayed, exc, steps>>

FetchConnect ==
    /\ fpc = "connect"
    /\ \/ /\ conn' = "open" /\ openConns' = openConns + 1
          /\ fpc' = "query"
          /\ UNCHANGED fexc
       \/ /\ \E ssl \in BOOLEAN : fexc' = OperationalError(ssl)
          /\ fpc' = "except"
          /\ UNCHANGED <<conn, openConns>>
    /\ UNCHANGED <<env, pc, runs, now, cache, calls, ftable, fstart, fresult, fmsgs,
                   frameVars, notices, displayed, exc, steps>>

FetchQuery ==
    /\ fpc = "query"
    /\ \/ /\ \E df \in Db(ftable) : fresult' = Limit(df, DefaultLimit)
          /\ fpc' = "finally"
          /\ UNCHANGED fexc
       \/ /\ fexc' = DatabaseError
          /\ fpc' = "except"
          /\ UNCHANGED fresult
    /\ UNCHANGED <<env, pc, runs, now, cache, calls, ftable, fstart, conn, openConns,
                   fmsgs, frameVars, notices, displayed, exc, steps>>

FetchExcept ==
    /\ fpc = "except"
    /\ notices' = Append(notices, fetch_error(ftable, fexc))
    /\ fmsgs' = Append(fmsgs, fetch_error(ftable, fexc))
    /\ fresult' = EmptyDataFrame
    /\ fpc' = "finally"
    /\ UNCHANGED <<env, pc, runs, now, cache, calls, ftable, fstart, conn, openConns,
                   fexc, frameVars, displayed, exc, steps>>

FetchFinally ==
    /\ fpc = "finally"
    /\ openConns' = OpenAfterFinally(conn, fexc # NoExc, openConns)
    /\ cache' = CacheStore(cache, <<ftable, DefaultLimit>>, fresult, fmsgs, now,
                           fexc # NoExc)
    /\ calls' = Append(calls, [key |-> <<ftable, DefaultLimit>>, t |-> fstart, run |-> runs,
                               miss |-> TRUE, opened |-> conn = "open",
                               failed |-> fexc # NoExc, ssl |-> fexc.ssl,
                               msgs |-> fmsgs, result |-> fresult])
    /\ Returns(fresult)
    /\ fpc' = "idle" /\ ftable' = "" /\ fstart' = 0 /\ conn' = "None"
    /\ fexc' = NoExc /\ fresult' = EmptyDataFrame /\ fmsgs' = <<>>
    /\ UNCHANGED <<env, runs, now, notices, displayed, exc>>

(***************************************************************************)
(* Lines 80-88: the empty-result branches.                                 *)
(***************************************************************************)
CheckEmpty ==
    /\ pc = "check_empty"
    /\ IF empty(agent_df) /\ empty(property_df)
       THEN /\ notices' = Append(notices, Plain("no_data_both"))
            /\ exc' = StopException
            /\ pc' = "raise"
       ELSE /\ notices' = notices
                \o (IF empty(agent_df)
                    THEN <<Notice("no_data", "Agent", FALSE, {})>>
                    ELSE IF empty(property_df)
                    THEN <<Notice("no_data", "Property", FALSE, {})>>
                    ELSE <<>>)
                \o <<Plain("connected")>>
            /\ pc' = Branch(agent_df, property_df)
            /\ UNCHANGED exc
    /\ UNCHANGED <<env, runs, now, cache, calls, fetchVars, frameVars, displayed, steps>>

(***************************************************************************)
(* Lines 91-113: projection, left merge, fillna, head of the merged table. *)
(***************************************************************************)
MergeStep ==
    /\ pc = "merge"
    /\ steps' = steps \cup {"merge"}
    /\ IF MergeRaises(property_df, agent_df)
       THEN /\ exc' = KeyError
            /\ pc' = "raise"
            /\ UNCHANGED <<merged_df, displayed>>
       ELSE /\ merged_df' = Merge(property_df, agent_df)
            /\ displayed' = displayed \cup {"merged_head"}
            /\ pc' = "filter"
            /\ UNCHANGED exc
    /\ UNCHANGED <<env, runs, now, cache, calls, fetchVars, agent_df, property_df,
                   filtered_df, selection, notices>>

(***************************************************************************)
(* Lines 116-140: the selectboxes and the filters.                         *)
(***************************************************************************)
FilterStep ==
    /\ pc = "filter"
    /\ \E sel \in Selections(merged_df) :
          /\ selection' = sel
          /\ filtered_df' = Filtered(merged_df, sel)
    /\ displayed' = displayed \cup {"filtered_df"}
    /\ steps' = steps \cup {"filter"}
    /\ pc' = "tabs"
    /\ UNCHANGED <<env, runs, now, cache, calls, fetchVars, agent_df, property_df,
                   merged_df, notices, exc>>

(***************************************************************************)
(* Lines 143-268: the four tabs.                                           *)
(***************************************************************************)
Tabs ==
    /\ pc = "tabs"
    /\ displayed' = displayed \cup {"charts", "raw_agent_df", "raw_property_df",
                                    "raw_merged_df"}
    /\ steps' = steps \cup {"visualize"}
    /\ pc' = "done"
    /\ UNCHANGED <<env, runs, now, cache, calls, fetchVars, frameVars, notices, exc>>

(***************************************************************************)
(* Lines 270-277: only one table has rows.                                 *)
(***************************************************************************)
SingleTable ==
    /\ pc = "single"
    /\ IF ~empty(agent_df)
       THEN /\ displayed' = displayed \cup {"agent_df"}
            /\ notices' = Append(notices, Notice("cannot_merge", "Property", FALSE, {}))
       ELSE /\ displayed' = displayed \cup {"property_df"}
            /\ notices' = Append(notices, Notice("cannot_merge", "Agent", FALSE, {}))
    /\ pc' = "done"
    /\ UNCHANGED <<env, runs, now, cache, calls, fetchVars, frameVars, exc, steps>>

(***************************************************************************)
(* Line 279: an exception leaves the try block.  `except Exception`        *)
(* catches it unless it is the StopException of st.stop().                 *)
(***************************************************************************)
Unwind ==
    /\ pc = "raise"
    /\ pc' = IF CaughtByExceptException(exc) THEN "except"
             ELSE IF exc = StopException THEN "stopped"
             ELSE "crashed"
    /\ UNCHANGED <<env, runs, now, cache, calls, fetchVars, frameVars, notices,
                   displayed, exc, steps>>

(***************************************************************************)
(* Lines 280-282: the outer except clause.                                 *)
(***************************************************************************)
ExceptHandler ==
    /\ pc = "except"
    /\ notices' = notices \o HandlerNotices(exc)
    /\ exc' = NoExc
    /\ pc' = "done"
    /\ UNCHANGED <<env, runs, now, cache, calls, fetchVars, frameVars, displayed, steps>>

(***************************************************************************)
(* A new interaction reruns the script; the cache and the clock remain.    *)
(***************************************************************************)
Final == {"done", "stopped", "crashed"}

Rerun ==
    /\ pc \in Final
    /\ runs < MaxRuns
    /\ runs' = runs + 1
    /\ pc' = "start"
    /\ fpc' = "idle" /\ ftable' = "" /\ fstart' = 0 /\ conn' = "None"
    /\ fexc' = NoExc /\ fresult' = EmptyDataFrame /\ fmsgs' = <<>>
    /\ agent_df' = EmptyDataFrame /\ property_df' = EmptyDataFrame
    /\ merged_df' = EmptyDataFrame /\ filtered_df' = EmptyDataFrame
    /\ selection' = NoSelection
    /\ notices' = <<>> /\ displayed' = {} /\ exc' = NoExc /\ steps' = {}
    /\ UNCHANGED <<env, now, cache, calls, openConns>>

Tick ==
    /\ pc \in {"start", "fetch_property"} /\ fpc = "idle"
    /\ \E d \in Deltas : now + d <= MaxTime /\ now' = now + d
    /\ UNCHANGED <<env, pc, runs, cache, calls, fetchVars, frameVars, notices,
                   displayed, exc, steps>>

Next ==
    \/ ConfigCheck
    \/ FetchCached
    \/ FetchMiss
    \/ FetchConnect
    \/ FetchQuery
    \/ FetchExcept
    \/ FetchFinally
    \/ CheckEmpty
    \/ MergeStep
    \/ FilterStep
    \/ Tabs
    \/ SingleTable
    \/ Unwind
    \/ ExceptHandler
    \/ Rerun
    \/ Tick

Spec == Init /\ [][Next]_vars

(***************************************************************************)
(* The merge on its own: the script at line 91 with two non-empty frames   *)
(* drawn from bounded sets.                                                *)
(***************************************************************************)
PropertyFrames(rows) ==
    {[cols |-> PropertyCols, rows |-> r] : r \in SeqsUpTo(rows, MaxProps) \ {<<>>}}

AgentFrames(rows) ==
    {[cols |-> agent_cols_to_merge, rows |-> r] : r \in SeqsUpTo(rows, MaxAgents) \ {<<>>}}

InitFetched ==
    /\ env = FullEnv
    /\ runs = 1 /\ now = 0
    /\ cache = [k \in Keys |-> NoEntry]
    /\ calls = <<>>
    /\ openConns = 0
    /\ fpc = "idle" /\ ftable = "" /\ fstart = 0 /\ conn = "None"
    /\ fexc = NoExc /\ fresult = EmptyDataFrame /\ fmsgs = <<>>
    /\ filtered_df = EmptyDataFrame
    /\ selection = NoSelection
    /\ notices = <<Plain("connected")>> /\ exc = NoExc

InitMerge ==
    /\ InitFetched
    /\ pc = "merge"
    /\ property_df \in PropertyFrames(PropertyRowsOver(AgentIds \cup {NaN}, {"House"}, {"Gotham"}))
    /\ agent_df \in AgentFrames(AgentRows)
    /\ merged_df = EmptyDataFrame
    /\ displayed = {}
    /\ steps = {"fetch_agent", "fetch_property"}

NextMerge == MergeStep

SpecMerge == InitMerge /\ [][NextMerge]_vars

(***************************************************************************)
(* The filters on their own: the script at line 116 with a merged frame    *)
(* computed from bounded inputs.                                           *)
(***************************************************************************)
FilterAgentFrames ==
    {[cols |-> agent_cols_to_merge, rows |-> <<A1>>],
     [cols |-> agent_cols_to_merge, rows |-> <<A1, A2>>]}

InitFilter ==
    /\ InitFetched
    /\ pc = "filter"
    /\ property_df \in PropertyFrames(PropertyRowsOver({"10", NaN}, PropertyTypes, Cities))
    /\ agent_df \in FilterAgentFrames
    /\ merged_df = Merge(property_df, agent_df)
    /\ displayed = {"merged_head"}
    /\ steps = {"fetch_agent", "fetch_property", "merge"}

NextFilter == FilterStep

SpecFilter == InitFilter /\ [][NextFilter]_vars

(***************************************************************************)
(* Properties.                                                             *)
(***************************************************************************)
Agent(r) == {j \in 1..Len(agent_df.rows) : agent_df.rows[j].id = r.agentId}

\* C1: after the merge of two non-empty frames the merged frame has as many
\* rows as the property frame, and its i-th row is the i-th property record:
\* none dropped, none duplicated, also when two agents share an id.
MergeKeepsEachPropertyOnce ==
    (pc = "filter" /\ "merge" \in steps) =>
        /\ Len(merged_df.rows) = Len(property_df.rows)
        /\ \A i \in 1..Len(property_df.rows) :
              \A c \in property_df.cols :
                  merged_df.rows[i][c] = property_df.rows[i][c]

\* C2: in the merged frame every row whose agentId matches no agent id has
\* agent_companyName "No Agent Assigned" and agent_email, agent_phoneNumber
\* "N/A", and no row has a missing value in any of the three agent_ columns.
SentinelsFilled ==
    (pc = "filter" /\ "merge" \in steps) =>
        \A i \in 1..Len(merged_df.rows) :
            /\ Agent(merged_df.rows[i]) = {} =>
                  /\ merged_df.rows[i].agent_companyName = NoAgentAssigned
                  /\ merged_df.rows[i].agent_email = NA
                  /\ merged_df.rows[i].agent_phoneNumber = NA
            /\ \A c \in AgentAttrCols : merged_df.rows[i][c] # NaN

SentinelsFilledWitness ==
    /\ pc = "filter" /\ "merge" \in steps
    /\ \E i \in 1..Len(merged_df.rows) :
          /\ Agent(merged_df.rows[i]) = {}
          /\ merged_df.rows[i].agent_companyName = NoAgentAssigned
    /\ \E i \in 1..Len(merged_df.rows) :
          \E j \in Agent(merged_df.rows[i]) :
              /\ agent_df.rows[j].email = NaN
              /\ merged_df.rows[i].agent_email = NA

ConnectionClosedOnReturn == fpc = "idle" => openConns = 0

ConnectionClosedOnReturnWitness ==
    /\ fpc = "idle" /\ openConns = 0
    /\ \E i \in 1..Len(calls) : calls[i].opened /\ calls[i].failed
    /\ \E i \in 1..Len(calls) : calls[i].opened /\ ~calls[i].failed
    /\ \E i \in 1..Len(calls) : calls[i].miss /\ ~calls[i].opened

\* C5: a fetch_data call that fails, at the connection or at the query,
\* writes an error notice naming its table and returns the empty frame, and
\* no database exception ever reaches the script body.
FetchFailureContained ==
    /\ \A i \in 1..Len(calls) :
          calls[i].failed =>
              /\ calls[i].result = EmptyDataFrame
              /\ \E k \in 1..Len(calls[i].msgs) :
                    /\ calls[i].msgs[k].id = "fetch_error"
                    /\ calls[i].msgs[k].table = calls[i].key[1]
              /\ calls[i].run = runs =>
                    \E k \in 1..Len(notices) :
                        /\ notices[k].id = "fetch_error"
                        /\ notices[k].table = calls[i].key[1]
    /\ exc.kind \notin {"OperationalError", "DatabaseError"}
    /\ pc # "crashed"
    /\ fpc = "idle" => fexc = NoExc

FetchFailureContainedWitness ==
    /\ pc = "check_empty"
    /\ \E i \in 1..Len(calls) : calls[i].run = runs /\ calls[i].failed /\ ~calls[i].opened
    /\ \E i \in 1..Len(calls) : calls[i].run = runs /\ calls[i].failed /\ calls[i].opened

FilterKeepsExactlyMatches ==
    (pc = "tabs" /\ "filter" \in steps) =>
        filtered_df.rows =
            SelectSeq(merged_df.rows, LAMBDA r :
                \A c \in FilterCols :
                    selection[c] > 1 => r[c] = Options(merged_df, c)[selection[c]])

\* C8: a run in which a fetch failed with a TLS/SSL connection failure shows
\* the hint to change DB_SSL_MODE.
SslFailureCarriesHint ==
    (pc \in Final /\ \E i \in 1..Len(calls) :
                        calls[i].run = runs /\ calls[i].failed /\ calls[i].ssl) =>
        Has(notices, "ssl_hint")

\* C9: with both tables empty the run halts after the notice and shows
\* nothing; with exactly one empty only the other table is shown, with a
\* notice naming the empty one, and no merge, filter or chart step runs;
\* those steps run only when both tables are non-empty.
LaterSteps == {"merge", "filter", "visualize"}

EmptyResultBranches ==
    /\ (steps \cap LaterSteps # {} \/ pc \in {"merge", "filter", "tabs"}) =>
          ~empty(agent_df) /\ ~empty(property_df)
    /\ (pc \in Final /\ "fetch_property" \in steps) =>
          /\ (empty(agent_df) /\ empty(property_df)) =>
                /\ pc = "stopped"
                /\ notices[Len(notices)] = Plain("no_data_both")
                /\ displayed = {}
          /\ (empty(agent_df) /\ ~empty(property_df)) =>
                /\ pc = "done"
                /\ displayed = {"property_df"}
                /\ \E k \in 1..Len(notices) :
                      notices[k].id = "no_data" /\ notices[k].table = "Agent"
          /\ (~empty(agent_df) /\ empty(property_df)) =>
                /\ pc = "done"
                /\ displayed = {"agent_df"}
                /\ \E k \in 1..Len(notices) :
                      notices[k].id = "no_data" /\ notices[k].table = "Property"

EmptyResultBranchesWitness ==
    /\ pc = "done" /\ "fetch_property" \in steps
    /\ empty(agent_df) /\ ~empty(property_df)
    /\ displayed = {"property_df"}
    /\ runs = 2

\* C10: when both tables are non-empty and the property frame lacks agentId
\* or the agent frame lacks id, companyName, email or phoneNumber, the merge
\* failure is caught by the outer except clause and shown as an error notice;
\* the run does not crash and shows no merged or filtered table.
MergedDisplays == {"merged_head", "filtered_df", "charts", "raw_merged_df"}

SchemaMismatchCaught ==
    ("merge" \in steps /\ MergeRaises(property_df, agent_df)) =>
        /\ pc \in {"raise", "except", "done"}
        /\ displayed \cap MergedDisplays = {}
        /\ pc = "done" => Has(notices, "unexpected_error") /\ exc = NoExc

SchemaMismatchCaughtWitness ==
    /\ pc = "done" /\ "merge" \in steps
    /\ agent_cols_to_merge \subseteq agent_df.cols
    /\ "agentId" \notin property_df.cols
    /\ Has(notices, "unexpected_error")
    /\ displayed = {}

====
